---- MODULE Spec2Model ----
(***************************************************************************)
(* Model of django_hstore/hstore.py: the HStoreLookup custom lookup        *)
(* (construction and SQL rendering), the HStoreDescriptor attribute        *)
(* descriptor with HStoreDictionary, and HStoreField.get_prep_value.       *)
(*                                                                         *)
(* SQL text is a sequence of tokens; the token "%s" is a bind placeholder. *)
(* Python values are records [kind, elems, vals]: for a dict, elems are the*)
(* keys and vals the values; for a list, tuple, str or int, elems are the  *)
(* elements (the text, the number) and vals is empty.                      *)
(***************************************************************************)
EXTENDS Integers, Sequences, FiniteSets, TLC

VARIABLES
    lookup,     \* the HStoreLookup object under construction / constructed
    norm,       \* result of the last common_normalize call
    out,        \* result of the last prepare_lhs / as_constraint_sql / as_sql call
    heap,       \* HStoreDictionary objects: id -> [field, instance, content]
    idict,      \* instance.__dict__[field.name] of every model instance
    last,       \* the last completed descriptor assignment of every instance
    dres,       \* outcome of the last descriptor operation
    pheap,      \* dict objects handed to / made by get_prep_value
    pres        \* outcome of the last get_prep_value call

lookupVars == <<lookup, norm, out>>
descVars == <<heap, idict, last, dres>>
prepVars == <<pheap, pres>>
vars == <<lookup, norm, out, heap, idict, last, dres, pheap, pres>>

----------------------------------------------------------------------------
(* Bounds *)

\* longest nested_lookups sequence handed to HStoreLookup.__init__
MaxNest == 3
\* most parameters the base left-hand side brings along
MaxBase == 1
\* most HStoreDictionary objects alive at once
MaxObjs == 2
\* most dict objects alive around get_prep_value
MaxDicts == 2

----------------------------------------------------------------------------
(* HStoreLookup.__init__ *)

NoToken == "None"

\* the lookup names a query author may write after the field name
Tokens == {"asint", "asdate", "exact", "gt", "bogus"}

LookupTypes == {"exact", "contains", "mykey"}

\* nested_lookups as HStoreField.get_lookup passes it (lookup_names[1:]),
\* or the constructor's default None
NestedArgs ==
    {[none |-> TRUE, toks |-> <<>>]}
        \cup {[none |-> FALSE, toks |-> t] :
                t \in UNION {[1..n -> Tokens] : n \in 0..MaxNest}}

\* lookups the Char/Integer/Date fields of the framework know
KnownLookups == {"exact", "gt"}

NoLookup == [name |-> NoToken, field |-> NoToken]

\* retval_field.get_lookup(names, None): the framework's registry
FieldGetLookup(field, names) ==
    IF names[1] \in KnownLookups
    THEN [name |-> names[1], field |-> field]
    ELSE NoLookup

Raised(lt, arg, exc, msg) ==
    [status |-> exc, msg |-> msg, lookup_type |-> lt, arg |-> arg,
     retval_field |-> NoToken, nested_lookup |-> NoLookup, cast |-> <<>>,
     inner |-> <<>>]

Built(lt, arg, field, nested, cast, inner) ==
    [status |-> "ok", msg |-> "", lookup_type |-> lt, arg |-> arg,
     retval_field |-> field, nested_lookup |-> nested, cast |-> cast,
     inner |-> inner]

\* self.cast templates, as token sequences around the one %s
CastNone == <<"%s">>
CastInteger == <<"(", "%s", ")::INTEGER">>
CastDate == <<"(", "%s", ")::DATE">>

\* line 27, as if every first token were taken for a type conversion
IsCastTokenAny(t) == TRUE

IsCastToken(t) == t \in {"asint", "asdate"}

\* line 29, as if the token after the type conversion were dropped
RemainingLookupsDropped(toks) ==
    IF Len(toks) = 0 THEN <<>>
    ELSE IF IsCastToken(toks[1]) THEN <<"exact">>
    ELSE toks

\* lines 26-29: the names left for the inner lookup
RemainingLookups(toks) ==
    IF Len(toks) = 0 THEN <<>>
    ELSE IF IsCastToken(toks[1])
         THEN <<IF Len(toks) = 2 THEN toks[2] ELSE "exact">>
         ELSE toks

RetvalField(toks) ==
    IF Len(toks) > 0 /\ toks[1] = "asint" THEN "IntegerField"
    ELSE IF Len(toks) > 0 /\ toks[1] = "asdate" THEN "DateField"
    ELSE "CharField"

CastFor(toks) ==
    IF Len(toks) > 0 /\ toks[1] = "asint" THEN CastInteger
    ELSE IF Len(toks) > 0 /\ toks[1] = "asdate" THEN CastDate
    ELSE CastNone

\* line 17, as if 'contains' had been left out of the tuple
WholeColumnLookupExactOnly(lt) == lt = "exact"

\* line 17: the lookups on the whole column, which take no nested lookups
WholeColumnLookup(lt) == lt \in {"exact", "contains"}

NewLookup(lt, arg) ==
    IF WholeColumnLookup(lt)
    THEN IF ~arg.none /\ Len(arg.toks) > 0
         THEN Raised(lt, arg, "LookupError", "does not support nested lookups")
         ELSE Built(lt, arg, NoToken, NoLookup, <<>>, <<>>)
    ELSE IF arg.none
    THEN Raised(lt, arg, "TypeError", "len() of None")
    ELSE IF Len(arg.toks) > 2
    THEN Raised(lt, arg, "LookupError", "nesting too deep")
    ELSE IF Len(arg.toks) = 2 /\ ~IsCastToken(arg.toks[1])
    THEN Raised(lt, arg, "LookupError", "nesting too deep")
    ELSE LET rest == RemainingLookups(arg.toks)
             names == IF Len(rest) = 0 THEN <<"exact">> ELSE rest
             field == RetvalField(arg.toks)
             nested == FieldGetLookup(field, names)
         IN IF nested = NoLookup
            THEN Raised(lt, arg, "LookupError", "unknown nested lookup")
            ELSE Built(lt, arg, field, nested, CastFor(arg.toks), names)

NotBuilt == Raised(NoToken, [none |-> TRUE, toks |-> <<>>], "none", "")

\* self.nested_lookup is truthy
IsKeyed(lk) == lk.nested_lookup # NoLookup

----------------------------------------------------------------------------
(* Python values and parameter containers *)

Val(kind, elems, vals) == [kind |-> kind, elems |-> elems, vals |-> vals]
PyStr(s) == Val("str", <<s>>, <<>>)
PyInt(s) == Val("int", <<s>>, <<>>)

\* values a query may compare an hstore column with
RenderValues ==
    { Val("dict", <<>>, <<>>),
      Val("dict", <<"a">>, <<"1">>),
      Val("dict", <<"a">>, <<"E1">>),
      Val("dict", <<"a", "b">>, <<"E1", "None">>),
      Val("list", <<>>, <<>>),
      Val("list", <<"a">>, <<>>),
      Val("list", <<"a", "b">>, <<>>),
      Val("tuple", <<>>, <<>>),
      Val("tuple", <<"a", "b">>, <<>>),
      PyStr("a"),
      PyInt("42") }

\* isinstance(v, dict), isinstance(v, (list, tuple)), isinstance(v, basestring)
IsDict(v) == v.kind = "dict"
IsSequence(v) == v.kind \in {"list", "tuple"}
IsString(v) == v.kind = "str"

\* a params container: a Python list or tuple of values
Params(kind, items) == [kind |-> kind, items |-> items]
NoParams == Params("list", <<>>)

FieldKinds == {"DictionaryField", "ReferencesField"}

\* util.serialize_references: an entity becomes its identifier, None the
\* empty sentinel, a string stays
SerializeOne(v) ==
    IF v = "None" THEN ""
    ELSE IF v = "E1" THEN "tbl:1"
    ELSE v

SerializeReferences(value) ==
    Val("dict", value.elems, [i \in 1..Len(value.vals) |-> SerializeOne(value.vals[i])])

\* DictionaryField.get_prep_lookup / ReferencesField.get_prep_lookup
GetPrepLookup(field, lt, value) ==
    IF field = "ReferencesField" /\ IsDict(value)
    THEN SerializeReferences(value)
    ELSE value

----------------------------------------------------------------------------
(* HStoreLookup.common_normalize, prepare_lhs, as_constraint_sql, as_sql *)

Placeholder == "%s"

NoNorm == [status |-> "none", rhs_sql |-> <<>>, params |-> NoParams,
           value |-> PyStr(""), field |-> NoToken]

\* common_normalize of the framework's Lookup (of the inner lookup too):
\* one placeholder for the right-hand side, the params as given
BaseCommonNormalize(params) == [rhs_sql |-> <<Placeholder>>, params |-> params]

\* line 51, as if the prepared value were appended to the params
CommonNormalizeAppended(lk, params, field) ==
    IF IsKeyed(lk)
    THEN BaseCommonNormalize(params)
    ELSE LET base == BaseCommonNormalize(params)
         IN [rhs_sql |-> base.rhs_sql,
             params |-> Params("list", base.params.items \o
                          <<GetPrepLookup(field, lk.lookup_type, base.params.items[1])>>)]

CommonNormalize(lk, params, field) ==
    IF IsKeyed(lk)
    THEN BaseCommonNormalize(params)
    ELSE LET base == BaseCommonNormalize(params)
         IN [rhs_sql |-> base.rhs_sql,
             params |-> Params("list",
                          <<GetPrepLookup(field, lk.lookup_type, base.params.items[1])>>)]

\* Python's template % text, for a template with one %s
Subst(template, text) ==
    LET at == CHOOSE i \in 1..Len(template) : template[i] = Placeholder
    IN SubSeq(template, 1, at - 1) \o text \o SubSeq(template, at + 1, Len(template))

BaseParamNames == <<"b1", "b2", "b3", "b4">>

\* what the framework's prepare_lhs may return for the left-hand side: the
\* column, or an expression with n placeholders and its n parameters, the
\* parameters in a list or in a tuple
BaseLhsSql(n) ==
    IF n = 0 THEN <<"col">>
    ELSE <<"fn(col">> \o [i \in 1..n |-> Placeholder] \o <<")">>

BaseLhs ==
    {[sql |-> BaseLhsSql(n),
      params |-> Params(k, [i \in 1..n |-> PyStr(BaseParamNames[i])])] :
        n \in 0..MaxBase, k \in {"list", "tuple"}}

\* parameters the inner lookup's prepare_lhs may add for the left-hand side
InnerLhsParams == {<<>>, <<PyStr("i1")>>}

\* parameters the inner lookup's as_sql returns for its right-hand side
InnerSqlParams == {<<PyInt("5")>>, <<PyStr("x"), PyStr("y")>>}

Result(op, status, sql, params, base, ilhs, isql) ==
    [op |-> op, status |-> status, sql |-> sql, params |-> params,
     base |-> base, ilhs |-> ilhs, isql |-> isql]

NoOut == Result("none", "none", <<>>, NoParams, NoParams, <<>>, <<>>)

\* lines 58-61: params.insert(0, key), or the tuple rebuilt when insert fails
InsertKey(params, key) == Params(params.kind, <<PyStr(key)>> \o params.items)

\* line 64 and line 95: params.extend(more); a tuple has no extend
CanExtend(params) == params.kind = "list"
Extend(params, more) == Params(params.kind, params.items \o more)

PrepareLhs(lk, base, ilhs) ==
    IF ~IsKeyed(lk)
    THEN Result("prepare_lhs", "ok", base.sql, base.params, base.params, ilhs, <<>>)
    ELSE LET lhs_clause == Subst(lk.cast, base.sql \o <<"->", Placeholder>>)
             params == InsertKey(base.params, lk.lookup_type)
         IN IF CanExtend(params)
            THEN Result("prepare_lhs", "ok", lhs_clause, Extend(params, ilhs),
                        base.params, ilhs, <<>>)
            ELSE Result("prepare_lhs", "AttributeError", <<>>, NoParams,
                        base.params, ilhs, <<>>)

\* the inner lookup's as_sql: its comparison on the prepared left-hand side
InnerSql(nested, lvalue) == lvalue \o <<nested.name, Placeholder>>

AsSql(lk, base, ilhs, isql) ==
    LET prep == PrepareLhs(lk, base, ilhs)
    IN IF prep.status # "ok"
       THEN Result("as_sql", prep.status, <<>>, NoParams, base.params, ilhs, isql)
       ELSE IF IsKeyed(lk)
       THEN Result("as_sql", "ok", InnerSql(lk.nested_lookup, prep.sql),
                   Extend(prep.params, isql), base.params, ilhs, isql)
       ELSE Result("as_sql", "super", prep.sql, prep.params, base.params, ilhs, isql)

\* self.rhs_format(value_annotation, connection, rhs_sql)
RhsFormat(rhs_sql) == rhs_sql

Operator(sql_op, lhs_clause, rhs_format, params) ==
    Result("as_constraint_sql", "ok", lhs_clause \o <<sql_op>> \o rhs_format,
           params, NoParams, <<>>, <<>>)

ValueError == Result("as_constraint_sql", "ValueError", <<>>, NoParams, NoParams, <<>>, <<>>)

\* line 79: "if params:" tests the params list, which holds the value
ParamsTruthy(params) == Len(params.items) > 0

AsConstraintSql(lk, lhs_clause, rhs_sql, params) ==
    LET rhs_format == RhsFormat(rhs_sql)
        p0 == params.items[1]
    IN IF lk.lookup_type = "exact"
       THEN IF IsDict(p0) THEN Operator("=", lhs_clause, rhs_format, params)
            ELSE ValueError
       ELSE IF lk.lookup_type = "contains"
       THEN IF IsDict(p0) THEN Operator("@>", lhs_clause, rhs_format, params)
            ELSE IF IsSequence(p0)
                 THEN IF ParamsTruthy(params)
                      THEN Operator("?&", lhs_clause, rhs_format, params)
                      ELSE ValueError
            ELSE IF IsString(p0) THEN Operator("?", lhs_clause, rhs_format, params)
            ELSE ValueError
       ELSE Operator(lk.nested_lookup.name, lhs_clause, rhs_format, params)

----------------------------------------------------------------------------
(* The lookup life cycle: constructed once per query clause, rendered,     *)
(* discarded when the next one is constructed.                             *)

Construct(lt, arg) ==
    /\ lookup = NotBuilt
    /\ lookup' = NewLookup(lt, arg)
    /\ norm' = NoNorm
    /\ out' = NoOut
    /\ UNCHANGED <<descVars, prepVars>>

DoCommonNormalize(value, field) ==
    /\ lookup.status = "ok"
    /\ LET r == CommonNormalize(lookup, Params("list", <<value>>), field)
       IN norm' = [status |-> "ok", rhs_sql |-> r.rhs_sql, params |-> r.params,
                   value |-> value, field |-> field]
    /\ out' = NoOut
    /\ UNCHANGED <<lookup, descVars, prepVars>>

\* the clause is compiled (or the constructor raised): the lookup is dropped
Discard ==
    /\ lookup # NotBuilt
    /\ lookup' = NotBuilt
    /\ norm' = NoNorm
    /\ out' = NoOut
    /\ UNCHANGED <<descVars, prepVars>>

DoAsConstraintSql ==
    /\ lookup.status = "ok"
    /\ norm.status = "ok"
    /\ out' = AsConstraintSql(lookup, <<"col">>, norm.rhs_sql, norm.params)
    /\ UNCHANGED <<lookup, norm, descVars, prepVars>>

DoPrepareLhs(base, ilhs) ==
    /\ lookup.status = "ok"
    /\ out' = PrepareLhs(lookup, base, ilhs)
    /\ UNCHANGED <<lookup, norm, descVars, prepVars>>

DoAsSql(base, ilhs, isql) ==
    /\ lookup.status = "ok"
    /\ out' = AsSql(lookup, base, ilhs, isql)
    /\ UNCHANGED <<lookup, norm, descVars, prepVars>>

----------------------------------------------------------------------------
(* HStoreDictionary and HStoreDescriptor *)

Instances == {"m1", "m2"}
FieldName == "data"

\* dict contents a caller assigns
Contents == {Val("dict", <<>>, <<>>), Val("dict", <<"a">>, <<"1">>)}

\* a value handed to __set__: a plain dict, an HStoreDictionary (by identity),
\* or None
Plain(c) == [t |-> "dict", content |-> c, ref |-> 0]
Ref(id) == [t |-> "hsd", content |-> Val("dict", <<>>, <<>>), ref |-> id]
PyNone == [t |-> "none", content |-> Val("dict", <<>>, <<>>), ref |-> 0]

\* HStoreDictionary.__init__(value, field, instance): dict(value), then the
\* two bindings; dict(None) raises TypeError
CanBuildDict(v) == v.t = "dict"
HStoreDictionary(v, field, instance) ==
    [field |-> field, instance |-> instance, content |-> v.content]

\* lines 127-128, as if every assigned value were wrapped
DescriptorSetAlwaysWraps(d, h, instance, v) ==
    IF v.t = "hsd" \/ CanBuildDict(v)
    THEN [status |-> "ok",
          idict |-> [d EXCEPT ![instance] = Len(h) + 1],
          heap |-> Append(h, HStoreDictionary(
                        IF v.t = "hsd" THEN Plain(h[v.ref].content) ELSE v,
                        FieldName, instance))]
    ELSE [status |-> "TypeError", idict |-> d, heap |-> h]

\* HStoreDescriptor.__set__: the instance __dict__ and the heap afterwards
DescriptorSet(d, h, instance, v) ==
    IF v.t = "hsd"
    THEN [status |-> "ok", idict |-> [d EXCEPT ![instance] = v.ref], heap |-> h]
    ELSE IF CanBuildDict(v)
    THEN [status |-> "ok",
          idict |-> [d EXCEPT ![instance] = Len(h) + 1],
          heap |-> Append(h, HStoreDictionary(v, FieldName, instance))]
    ELSE [status |-> "TypeError", idict |-> d, heap |-> h]

\* HStoreDescriptor.__get__
DescriptorGet(d, instance) ==
    IF instance # "None"
    THEN IF d[instance] # 0
         THEN [op |-> "get", status |-> "ok", instance |-> instance, ref |-> d[instance]]
         ELSE [op |-> "get", status |-> "KeyError", instance |-> instance, ref |-> 0]
    ELSE [op |-> "get", status |-> "AttributeError", instance |-> instance, ref |-> 0]

NoObject == [field |-> "None", instance |-> "None", content |-> Val("dict", <<>>, <<>>)]
NeverSet == [set |-> FALSE, value |-> PyNone, was |-> NoObject, heapLen |-> 0]

\* user code builds an HStoreDictionary itself, bound or unbound
NewDictionary(c, instance) ==
    /\ Len(heap) < MaxObjs
    /\ heap' = Append(heap, HStoreDictionary(Plain(c),
                        IF instance = "None" THEN "None" ELSE FieldName, instance))
    /\ dres' = [op |-> "new", status |-> "ok", instance |-> instance, ref |-> Len(heap) + 1]
    /\ UNCHANGED <<idict, last, lookupVars, prepVars>>

\* instance.data = v
SetAttr(instance, v) ==
    /\ v.t = "hsd" => v.ref \in 1..Len(heap)
    /\ v.t = "dict" => Len(heap) < MaxObjs
    /\ LET r == DescriptorSet(idict, heap, instance, v)
       IN /\ idict' = r.idict
          /\ heap' = r.heap
          /\ dres' = [op |-> "set", status |-> r.status, instance |-> instance,
                      ref |-> r.idict[instance]]
          /\ last' = IF r.status = "ok"
                     THEN [last EXCEPT ![instance] =
                             [set |-> TRUE, value |-> v,
                              was |-> IF v.t = "hsd" THEN heap[v.ref] ELSE NoObject,
                              heapLen |-> Len(heap)]]
                     ELSE last
    /\ UNCHANGED <<lookupVars, prepVars>>

\* instance.data, or Model.data on the class (instance None)
GetAttr(instance) ==
    /\ dres' = DescriptorGet(idict, instance)
    /\ UNCHANGED <<heap, idict, last, lookupVars, prepVars>>

----------------------------------------------------------------------------
(* HStoreField.get_prep_value *)

Digits == <<"0", "1", "2", "3", "4", "5", "6", "7", "8", "9">>
Digit(n) == Digits[n + 1]

\* date.strftime('%Y-%m-%d'): zero-padded year, month and day
Strftime(y, m, d) ==
    << Digit(y \div 1000), Digit((y \div 100) % 10), Digit((y \div 10) % 10), Digit(y % 10),
       "-", Digit(m \div 10), Digit(m % 10),
       "-", Digit(d \div 10), Digit(d % 10) >>

PText(text) == [t |-> "str", text |-> text, y |-> 0, m |-> 0, d |-> 0, hour |-> 0]
PNumber(n) == [t |-> "int", text |-> <<>>, y |-> n, m |-> 0, d |-> 0, hour |-> 0]
PDate(y, m, d) == [t |-> "date", text |-> <<>>, y |-> y, m |-> m, d |-> d, hour |-> 0]
PDateTime(y, m, d, h) == [t |-> "datetime", text |-> <<>>, y |-> y, m |-> m, d |-> d, hour |-> h]

\* isinstance(v, date): a datetime is a date too
IsDate(v) == v.t \in {"date", "datetime"}

PrepValues == {PText(<<"x">>), PDate(2024, 2, 9), PDateTime(1999, 12, 31, 23)}
PrepKeys == {"a", "b"}

\* the dicts a caller passes: every map from some keys to values
PrepDicts == UNION {[ks -> PrepValues] : ks \in SUBSET PrepKeys}

\* an argument of get_prep_value: a dict (by identity) or another value
DictArg(id) == [isdict |-> TRUE, ref |-> id, value |-> PNumber(0)]
OtherArg(v) == [isdict |-> FALSE, ref |-> 0, value |-> v]

\* lines 143-146 on the copy: every date value becomes its text
Prepared(dict) ==
    [k \in DOMAIN dict |->
        IF IsDate(dict[k]) THEN PText(Strftime(dict[k].y, dict[k].m, dict[k].d))
        ELSE dict[k]]

\* line 143, as if the copy were left out
CopyTargetInPlace(h, arg) == arg.ref

\* value.copy(): the object the loop writes to (a new one)
CopyTarget(h, arg) == Len(h) + 1

\* get_prep_value(value): the heap afterwards and the returned value
GetPrepValue(h, arg) ==
    IF arg.isdict
    THEN LET target == CopyTarget(h, arg)
             copied == IF target = Len(h) + 1 THEN Append(h, h[arg.ref]) ELSE h
         IN [heap |-> [copied EXCEPT ![target] = Prepared(copied[target])],
             result |-> DictArg(target)]
    ELSE [heap |-> h, result |-> arg]

NoCall == [called |-> FALSE, arg |-> OtherArg(PNumber(0)), result |-> OtherArg(PNumber(0)),
           before |-> <<>>]

\* a caller builds a dict
MakeDict(dict) ==
    /\ Len(pheap) < MaxDicts
    /\ pheap' = Append(pheap, dict)
    /\ pres' = NoCall
    /\ UNCHANGED <<lookupVars, descVars>>

DoGetPrepValue(arg) ==
    /\ arg.isdict => (arg.ref \in 1..Len(pheap) /\ Len(pheap) <= MaxDicts)
    /\ LET r == GetPrepValue(pheap, arg)
       IN /\ pheap' = r.heap
          /\ pres' = [called |-> TRUE, arg |-> arg, result |-> r.result, before |-> pheap]
    /\ UNCHANGED <<lookupVars, descVars>>

\* the copy is dropped once the row is written
Forget ==
    /\ Len(pheap) > 0
    /\ pheap' = SubSeq(pheap, 1, Len(pheap) - 1)
    /\ pres' = NoCall
    /\ UNCHANGED <<lookupVars, descVars>>

----------------------------------------------------------------------------
(* Specifications *)

InitLookup == lookup = NotBuilt /\ norm = NoNorm /\ out = NoOut
InitDesc ==
    /\ heap = <<>>
    /\ idict = [i \in Instances |-> 0]
    /\ last = [i \in Instances |-> NeverSet]
    /\ dres = [op |-> "none", status |-> "none", instance |-> "None", ref |-> 0]
InitPrep == pheap = <<>> /\ pres = NoCall

Init == InitLookup /\ InitDesc /\ InitPrep

NextLookup ==
    \/ \E lt \in LookupTypes, arg \in NestedArgs : Construct(lt, arg)
    \/ \E value \in RenderValues, field \in FieldKinds : DoCommonNormalize(value, field)
    \/ DoAsConstraintSql
    \/ \E base \in BaseLhs, ilhs \in InnerLhsParams : DoPrepareLhs(base, ilhs)
    \/ \E base \in BaseLhs, ilhs \in InnerLhsParams, isql \in InnerSqlParams :
            DoAsSql(base, ilhs, isql)
    \/ Discard

NextDesc ==
    \/ \E c \in Contents, i \in Instances \cup {"None"} : NewDictionary(c, i)
    \/ \E i \in Instances :
         \E v \in {PyNone} \cup {Plain(c) : c \in Contents}
                    \cup {Ref(id) : id \in 1..Len(heap)} : SetAttr(i, v)
    \/ \E i \in Instances \cup {"None"} : GetAttr(i)

NextPrep ==
    \/ \E dict \in PrepDicts : MakeDict(dict)
    \/ \E arg \in {DictArg(id) : id \in 1..Len(pheap)}
                    \cup {OtherArg(v) : v \in PrepValues \cup {PNumber(7)}} :
            DoGetPrepValue(arg)
    \/ Forget

Next == NextLookup \/ NextDesc \/ NextPrep

\* the lookup of one query clause
SpecLookup == Init /\ [][NextLookup]_vars
\* attribute access on model instances
SpecDesc == Init /\ [][NextDesc]_vars
\* value preparation before a write
SpecPrep == Init /\ [][NextPrep]_vars

Spec == Init /\ [][Next]_vars

----------------------------------------------------------------------------
(* Claims about HStoreLookup.__init__ (checked under SpecLookup) *)

Constructed == lookup # NotBuilt
ArgTokens == lookup.arg.toks

\* C1: for lookup type exact or contains, construction with a non-empty
\* sequence of nested tokens raises LookupError, and with an empty sequence
\* (or the default None) it succeeds and the lookup has no nested (inner)
\* lookup.
C1_NoNestingOnWholeColumn ==
    (Constructed /\ lookup.lookup_type \in {"exact", "contains"}) =>
        IF Len(ArgTokens) > 0
        THEN lookup.status = "LookupError"
        ELSE lookup.status = "ok" /\ lookup.nested_lookup = NoLookup

C1_Witness ==
    /\ lookup.lookup_type = "contains"
    /\ ~lookup.arg.none /\ Len(ArgTokens) = 1
    /\ lookup.status = "LookupError"

\* C3: for a keyed lookup, construction raises LookupError whenever there are
\* more than 2 nested tokens, or exactly 2 whose first is neither asint nor
\* asdate; so a constructed keyed lookup has at most 2 nested tokens, and 2
\* only when the first is a cast token.
C3_NestingDepth ==
    (Constructed /\ lookup.lookup_type \notin {"exact", "contains"} /\ ~lookup.arg.none) =>
        /\ Len(ArgTokens) > 2 => lookup.status = "LookupError"
        /\ (Len(ArgTokens) = 2 /\ ArgTokens[1] \notin {"asint", "asdate"}) =>
                lookup.status = "LookupError"
        /\ lookup.status = "ok" =>
                /\ Len(ArgTokens) <= 2
                /\ Len(ArgTokens) = 2 => ArgTokens[1] \in {"asint", "asdate"}

C3_Witness ==
    /\ lookup.lookup_type = "mykey"
    /\ ArgTokens = <<"exact", "gt">>
    /\ lookup.status = "LookupError"

\* C4: a keyed lookup that was constructed has cast (%s)::INTEGER and an inner
\* lookup on an IntegerField when the first token is asint, (%s)::DATE and a
\* DateField when it is asdate, the identity %s and a CharField otherwise; the
\* inner lookup's name is the token after the cast token, or the single
\* non-cast token, and exact when there is none; it always has an inner lookup.
C4_CastAndInnerLookup ==
    (lookup.status = "ok" /\ lookup.lookup_type \notin {"exact", "contains"}) =>
        LET n == Len(ArgTokens)
            first == IF n > 0 THEN ArgTokens[1] ELSE "exact"
            isCast == n > 0 /\ first \in {"asint", "asdate"}
        IN /\ lookup.nested_lookup # NoLookup
           /\ lookup.nested_lookup.field = lookup.retval_field
           /\ (n > 0 /\ first = "asint") =>
                /\ lookup.cast = <<"(", "%s", ")::INTEGER">>
                /\ lookup.retval_field = "IntegerField"
           /\ (n > 0 /\ first = "asdate") =>
                /\ lookup.cast = <<"(", "%s", ")::DATE">>
                /\ lookup.retval_field = "DateField"
           /\ ~isCast =>
                /\ lookup.cast = <<"%s">>
                /\ lookup.retval_field = "CharField"
           /\ lookup.nested_lookup.name =
                IF isCast THEN (IF n = 2 THEN ArgTokens[2] ELSE "exact")
                ELSE IF n = 1 THEN first
                ELSE "exact"

C4_Witness ==
    /\ lookup.status = "ok"
    /\ lookup.lookup_type = "mykey"
    /\ ArgTokens = <<"asdate", "gt">>

----------------------------------------------------------------------------
(* Claims about rendering (checked under SpecLookup) *)

Rendered == out.op = "as_constraint_sql"
ColumnSql(op) == <<"col", op, "%s">>

\* C2: rendering a contains lookup whose value is an empty list or tuple
\* raises ValueError instead of giving a ?& fragment.
C2_EmptySequenceRejected ==
    (Rendered /\ lookup.lookup_type = "contains"
        /\ norm.value.kind \in {"list", "tuple"} /\ Len(norm.value.elems) = 0) =>
        out.status = "ValueError"

\* C5: rendering a contains lookup picks the operator from the value's shape
\* alone: a mapping gives @>, a non-empty list or tuple gives ?&, a string
\* gives ?, and every other shape raises ValueError.
C5_ContainsOperatorByShape ==
    (Rendered /\ lookup.lookup_type = "contains") =>
        LET v == norm.value
        IN IF v.kind = "dict"
           THEN out.status = "ok" /\ out.sql = ColumnSql("@>")
           ELSE IF v.kind \in {"list", "tuple"} /\ Len(v.elems) > 0
           THEN out.status = "ok" /\ out.sql = ColumnSql("?&")
           ELSE IF v.kind = "str"
           THEN out.status = "ok" /\ out.sql = ColumnSql("?")
           ELSE out.status = "ValueError"

\* C6: rendering an exact lookup with a mapping value gives <lhs> = <placeholder>
\* and binds exactly one parameter, the prepared value (the value itself for a
\* DictionaryField, its serialized mapping with the same keys for a
\* ReferencesField); with any other value it raises ValueError.
C6_ExactRendering ==
    (Rendered /\ lookup.lookup_type = "exact") =>
        LET v == norm.value
        IN IF v.kind = "dict"
           THEN /\ out.status = "ok"
                /\ out.sql = ColumnSql("=")
                /\ out.params.kind = "list"
                /\ Len(out.params.items) = 1
                /\ LET p == out.params.items[1]
                   IN IF norm.field = "DictionaryField"
                      THEN p = v
                      ELSE /\ p.kind = "dict"
                           /\ p.elems = v.elems
                           /\ Len(p.vals) = Len(v.vals)
                           /\ \A i \in 1..Len(p.vals) : p.vals[i] \notin {"E1", "None"}
           ELSE out.status = "ValueError"

C6_Witness ==
    /\ Rendered /\ lookup.lookup_type = "exact"
    /\ norm.field = "ReferencesField"
    /\ norm.value = Val("dict", <<"a", "b">>, <<"E1", "None">>)
    /\ out.status = "ok"

\* position of the first placeholder of a fragment (0 when there is none)
FirstPlaceholder(sql) ==
    IF \E i \in 1..Len(sql) : sql[i] = "%s"
    THEN CHOOSE i \in 1..Len(sql) :
            sql[i] = "%s" /\ \A j \in 1..(i - 1) : sql[j] # "%s"
    ELSE 0

\* C7: for every keyed lookup that as_sql renders, the left-hand side is the
\* cast template applied to <lhs> -> %s, the parameters are the hstore key
\* followed by the inner comparison's parameters in order, each once, and the
\* key's placeholder is the first placeholder as the key is the first parameter.
C7_KeyFirst ==
    (out.op = "as_sql" /\ out.status = "ok") =>
        LET k == FirstPlaceholder(out.sql)
            first == IF Len(ArgTokens) > 0 THEN ArgTokens[1] ELSE "exact"
        IN /\ out.params.items = <<PyStr(lookup.lookup_type)>> \o out.ilhs \o out.isql
           /\ k > 1
           /\ out.sql[k - 1] = "->"
           /\ first = "asint" => (out.sql[1] = "(" /\ out.sql[k + 1] = ")::INTEGER")
           /\ first = "asdate" => (out.sql[1] = "(" /\ out.sql[k + 1] = ")::DATE")

\* C8: prepare_lhs of a keyed lookup whose base parameters are a tuple
\* completes and returns the key, then the base parameters, then the inner
\* lookup's parameters.
C8_TupleFallbackCompletes ==
    (out.op = "prepare_lhs" /\ IsKeyed(lookup) /\ out.base.kind = "tuple") =>
        /\ out.status = "ok"
        /\ out.params.items = <<PyStr(lookup.lookup_type)>> \o out.base.items \o out.ilhs

----------------------------------------------------------------------------
(* Claim about the descriptor (checked under SpecDesc) *)

----------------------------------------------------------------------------
(* Claim about get_prep_value (checked under SpecPrep) *)

DecimalDigit(c) ==
    CASE c = "0" -> 0 [] c = "1" -> 1 [] c = "2" -> 2 [] c = "3" -> 3 [] c = "4" -> 4
      [] c = "5" -> 5 [] c = "6" -> 6 [] c = "7" -> 7 [] c = "8" -> 8 [] c = "9" -> 9
      [] OTHER -> -1000000

\* text reads YYYY-MM-DD for the year, month and day given
IsIsoDateOf(text, y, m, d) ==
    /\ Len(text) = 10
    /\ text[5] = "-" /\ text[8] = "-"
    /\ 1000 * DecimalDigit(text[1]) + 100 * DecimalDigit(text[2])
         + 10 * DecimalDigit(text[3]) + DecimalDigit(text[4]) = y
    /\ 10 * DecimalDigit(text[6]) + DecimalDigit(text[7]) = m
    /\ 10 * DecimalDigit(text[9]) + DecimalDigit(text[10]) = d

\* C10: get_prep_value leaves the mapping it is given as it was: for a mapping
\* it returns a new mapping with the same keys, every date value replaced by
\* its YYYY-MM-DD text and every other value unchanged; any other value is
\* returned unchanged.
C10_PrepValueCopies ==
    pres.called =>
        IF pres.arg.isdict
        THEN LET given == pres.before[pres.arg.ref]
                 new == pres.result.ref
             IN /\ \A id \in 1..Len(pres.before) : pheap[id] = pres.before[id]
                /\ pres.result.isdict
                /\ new \in 1..Len(pheap) /\ new > Len(pres.before)
                /\ DOMAIN pheap[new] = DOMAIN given
                /\ \A k \in DOMAIN given :
                      IF given[k].t \in {"date", "datetime"}
                      THEN /\ pheap[new][k].t = "str"
                           /\ IsIsoDateOf(pheap[new][k].text, given[k].y, given[k].m, given[k].d)
                      ELSE pheap[new][k] = given[k]
        ELSE pres.result = pres.arg /\ pheap = pres.before

C10_Witness ==
    /\ pres.called /\ pres.arg.isdict
    /\ DOMAIN pres.before[pres.arg.ref] = {"a", "b"}
    /\ pres.before[pres.arg.ref]["a"].t = "date"
    /\ pres.before[pres.arg.ref]["b"].t = "str"

====
